---- MODULE Spec2Model ----
(***************************************************************************)
(* A model of pdfdl's crawl engine (src/pdfdl/cli.py): process_url_queue   *)
(* with resolve_final_url, get_filename_from_response and download_file.   *)
(*                                                                         *)
(* Strings are sequences of tokens.  A URL such as                         *)
(*   http://h/j/article/view/1/2                                           *)
(* is <<"http:","/","/","h","/","j","/","article","/","view","/","1",      *)
(* "/","2">>: every "/", "?" and "#" is a token of its own, so that the    *)
(* regular expression, str.replace, urlparse and os.path.basename of the   *)
(* source are computed on the text and not assumed.                        *)
(***************************************************************************)
EXTENDS Integers, Sequences, FiniteSets, TLC

VARIABLES
    queue,                  \* deque of pending URLs                (line 121)
    visited_urls,           \* set of visited URLs                  (line 122)
    pc,                     \* position in process_url_queue
    current_url,            \* the popped URL                       (line 130)
    resolved_download_url,  \* resolved derived download URL        (line 145)
    resolved_url,           \* resolved popped URL                  (line 169)
    response,               \* the response of the open with-block  (line 182)
    idx,                    \* position of the anchor loop          (line 198)
    absolute_link,          \* the link of the current anchor       (line 211)
    links,                  \* candidate links of the page          (line 194)
    pdf_response,           \* the last direct-link response        (line 220)
    filename,               \* last derived file name               (line 189)
    saved,                  \* what the last download_file call did
    files,                  \* the output directory: name -> content
    overwrite,              \* the --overwrite option               (line 119)
    moved,                  \* the web: the URLs that redirect
    ctype,                  \* the web: declared media type of each URL
    head_ok,                \* whether the last HEAD probe succeeded
    fetched,                \* the targets of the GET requests issued so far
    refetched,              \* some GET targeted a URL already in fetched
    event                   \* the last message printed

vars == <<queue, visited_urls, pc, current_url, resolved_download_url,
          resolved_url, response, idx, absolute_link, links, pdf_response,
          filename, saved, files, overwrite, moved, ctype, head_ok, fetched,
          refetched, event>>

(***************************************************************************)
(* Bounds of the model.                                                    *)
(***************************************************************************)
MaxStart == 2
MaxHdrLen == 4

(***************************************************************************)
(* The URLs of the modelled site.                                          *)
(***************************************************************************)
Http == <<"http:", "/", "/", "h">>
V == Http \o <<"/", "j", "/", "article", "/", "view", "/", "1", "/", "2">>
D == Http \o <<"/", "j", "/", "article", "/", "download", "/", "1", "/", "2">>
P == Http \o <<"/", "p">>
A == Http \o <<"/", "a.pdf">>
F == Http \o <<"/", "f">>
BadHref == <<"http:", "/", "/", "[">>
NoUrl == <<>>

Urls == {V, D, P, A, F}

(***************************************************************************)
(* Text helpers.                                                           *)
(***************************************************************************)
Last(s) == s[Len(s)]

\* the positions of s holding a token of set T
Positions(s, T) == {i \in 1..Len(s) : s[i] \in T}

Min(S) == CHOOSE x \in S : \A y \in S : x <= y
Max(S) == CHOOSE x \in S : \A y \in S : x >= y

\* s up to, and without, its first token of T (str.split(t)[0], [^t]*)
Before(s, T) ==
    IF Positions(s, T) = {} THEN s ELSE SubSeq(s, 1, Min(Positions(s, T)) - 1)

\* s from position i on
From(s, i) == SubSeq(s, i, Len(s))

Digits == {"1", "2", "7", "42"}

(***************************************************************************)
(* article_view_pattern.search(url), lines 125-127 and 136:                *)
(*   /([^/]+)/article/view/(\d+)(?:/(\d+))                                 *)
(* searched anywhere in the URL text.  A match at j is the "/" before      *)
(* "article"; the collection group is a non-empty run of non-"/" tokens    *)
(* that ends at j-1 and follows a "/".                                     *)
(***************************************************************************)
MatchAt(url, j) ==
    /\ j >= 3
    /\ j + 7 <= Len(url)
    /\ url[j] = "/" /\ url[j+1] = "article" /\ url[j+2] = "/"
    /\ url[j+3] = "view" /\ url[j+4] = "/"
    /\ url[j+5] \in Digits
    /\ url[j+6] = "/"
    /\ url[j+7] \in Digits
    /\ url[j-1] # "/"
    /\ \E i \in 1..(j-2) :
          /\ url[i] = "/"
          /\ \A k \in (i+1)..(j-1) : url[k] # "/"

article_view_match(url) == \E j \in 1..Len(url) : MatchAt(url, j)

(***************************************************************************)
(* current_url.replace("/article/view/", "/article/download/"), line 141:  *)
(* every non-overlapping occurrence, left to right.                        *)
(***************************************************************************)
RECURSIVE replace_view(_)
replace_view(url) ==
    IF url = <<>> THEN <<>>
    ELSE IF Len(url) >= 5 /\ SubSeq(url, 1, 5) = <<"/", "article", "/", "view", "/">>
         THEN <<"/", "article", "/", "download", "/">> \o replace_view(From(url, 6))
         ELSE <<Head(url)>> \o replace_view(Tail(url))

(***************************************************************************)
(* urlparse(url).path, line 104: what follows the scheme and the host, up  *)
(* to the query or the fragment.                                           *)
(***************************************************************************)
urlparse_path(url) ==
    LET hasNetloc == Len(url) >= 3 /\ url[1] = "http:" /\ url[2] = "/" /\ url[3] = "/"
        rest      == IF hasNetloc THEN From(url, 4) ELSE url
        host      == IF hasNetloc THEN Before(rest, {"/", "?", "#"}) ELSE <<>>
    IN  Before(From(rest, Len(host) + 1), {"?", "#"})

\* os.path.basename(path), line 105: what follows the last "/"
basename(path) ==
    IF Positions(path, {"/"}) = {} THEN path
    ELSE From(path, Max(Positions(path, {"/"})) + 1)

(***************************************************************************)
(* unquote and the sanitising re.sub of line 107, token by token.          *)
(***************************************************************************)
unquote_token(t) ==
    CASE t = "%20" -> " "
      [] t = "%2F" -> "/"
      [] OTHER -> t

sanitize_token(t) ==
    CASE t \in {"<", ">", ":", "\"", "/", "\\", "|", "?", "*"} -> "_"
      [] t = "filename*=UTF-8''" -> "filename_=UTF-8''"
      [] t = "http:" -> "http_"
      [] OTHER -> t

sanitize(name) == [i \in 1..Len(name) |-> sanitize_token(unquote_token(name[i]))]

\* str.strip("\"'"), line 101
RECURSIVE strip_quotes(_)
strip_quotes(s) ==
    IF s = <<>> THEN s
    ELSE IF Head(s) \in {"\"", "'"} THEN strip_quotes(Tail(s))
    ELSE IF Last(s) \in {"\"", "'"} THEN strip_quotes(SubSeq(s, 1, Len(s) - 1))
    ELSE s

(***************************************************************************)
(* re.search(directive + "([^;]+)", header), lines 95 and 99: the leftmost *)
(* directive followed by at least one token other than ";"; the group is   *)
(* the longest run of such tokens.  <<>> stands for "no match".            *)
(***************************************************************************)
DirectiveAt(header, directive) ==
    {i \in 1..(Len(header) - 1) : header[i] = directive /\ header[i+1] # ";"}

search_directive(header, directive) ==
    IF DirectiveAt(header, directive) = {} THEN <<>>
    ELSE Before(From(header, Min(DirectiveAt(header, directive)) + 1), {";"})

(***************************************************************************)
(* get_filename_from_response, lines 91-107.                               *)
(***************************************************************************)
\* a derivation that tries the filename= directive first
header_filename_plain_first(content_disposition) ==
    IF content_disposition = <<>> THEN <<>>
    ELSE IF search_directive(content_disposition, "filename=") # <<>>
         THEN strip_quotes(search_directive(content_disposition, "filename="))
         ELSE search_directive(content_disposition, "filename*=UTF-8''")

header_filename(content_disposition) ==
    IF content_disposition = <<>> THEN <<>>
    ELSE IF search_directive(content_disposition, "filename*=UTF-8''") # <<>>
         THEN search_directive(content_disposition, "filename*=UTF-8''")
         ELSE strip_quotes(search_directive(content_disposition, "filename="))

url_filename(url) ==
    IF Before(basename(urlparse_path(url)), {"?"}) # <<>>
    THEN Before(basename(urlparse_path(url)), {"?"})
    ELSE <<"downloaded.pdf">>

get_filename_from_response(resp) ==
    sanitize(IF header_filename(resp.content_disposition) # <<>>
             THEN header_filename(resp.content_disposition)
             ELSE url_filename(resp.url))

(***************************************************************************)
(* The web.  Location gives where a URL redirects to when it is in moved;  *)
(* moved and ctype are drawn in Init and stay as drawn (a static site).    *)
(* Transport and HTTP failures are drawn per request.                      *)
(***************************************************************************)
CanMove == {D, A, F}

Location(url) ==
    CASE url = D -> A
      [] url = F -> A
      [] url = A -> P
      [] OTHER -> url

\* the end of the redirect chain of url (redirects are followed, lines 112, 154, 180)
RECURSIVE Final(_)
Final(url) == IF url \in moved THEN Final(Location(url)) ELSE url

MediaTypes(url) ==
    CASE url = V -> {"text/html; charset=utf-8", "image/png"}
      [] url = D -> {"application/pdf", "text/html; charset=utf-8"}
      [] url = A -> {"Application/PDF", "text/html; charset=utf-8"}
      [] url = F -> {"application/pdf"}
      [] OTHER -> {"text/html; charset=utf-8"}

\* the content-disposition header the site sends with each URL (<<>>: none)
ContentDisposition(url) ==
    CASE url = F -> <<"attachment", ";", "filename=", "\"", "a.pdf", "\"">>
      [] url = D -> <<"attachment", ";", "filename*=UTF-8''", "paper", "%20", "1.pdf">>
      [] OTHER -> <<>>

\* the anchors (a href=...) of each page, in document order
Anchor(href, class, download) == [href |-> href, class |-> class, download |-> download]

PageAnchors(url) ==
    CASE url = P -> << Anchor(<<"/", "a.pdf">>, {"pdf"}, FALSE),
                       Anchor(F, {"download", "btn"}, TRUE),
                       Anchor(V, {"pdf"}, FALSE),
                       Anchor(<<"a.pdf">>, {}, FALSE) >>
      [] url = V -> << Anchor(<<"/", "f">>, {"download"}, TRUE),
                       Anchor(P, {}, FALSE),
                       Anchor(A, {"download"}, FALSE) >>
      [] url = A -> << Anchor(A, {"pdf"}, TRUE),
                       Anchor(BadHref, {}, FALSE),
                       Anchor(V, {"pdf"}, FALSE) >>
      [] OTHER -> << Anchor(P, {}, FALSE) >>

NetOutcomes == {"conn_error", "http_error", "ok"}
IoOutcomes == {"ok", "mkdir_error", "length_error", "open_error", "write_error"}

NoResponse == [status |-> "none", url |-> NoUrl, content_type |-> "",
               content_disposition |-> <<>>, closed |-> TRUE]

(***************************************************************************)
(* requests.get(url, stream=True, allow_redirects=True), lines 150, 176    *)
(* and 220: the response of the end of the redirect chain.  net is what    *)
(* the network does with this request.                                     *)
(***************************************************************************)
http_get(url, net) ==
    [status |-> IF net = "conn_error" THEN "conn_error"
                ELSE IF net = "http_error" \/ Final(url) \notin Urls THEN "http_error"
                ELSE "ok",
     url |-> Final(url),
     content_type |-> IF Final(url) \in Urls THEN ctype[Final(url)] ELSE "",
     content_disposition |-> ContentDisposition(Final(url)),
     closed |-> FALSE]

\* response.raise_for_status() passes (lines 157, 183, 226)
Succeeded(resp) == resp.status = "ok"

\* content_type.lower(), lines 158 and 185
lower(content_type) ==
    CASE content_type = "Application/PDF" -> "application/pdf"
      [] OTHER -> content_type

\* a dispatch that takes a page for a document
is_pdf_or_html(content_type) ==
    lower(content_type) \in {"application/pdf", "text/html", "text/html; charset=utf-8"}

\* "application/pdf" in content_type, lines 159 and 187
is_pdf(content_type) == lower(content_type) \in {"application/pdf"}

\* a dispatch that scans whatever is not a document
is_html_any(content_type) == TRUE

\* "text/html" in content_type, line 193
is_html(content_type) == lower(content_type) \in {"text/html", "text/html; charset=utf-8"}

(***************************************************************************)
(* resolve_final_url, lines 110-115: the HEAD probe follows the redirects; *)
(* a RequestException gives the input back.                                *)
(***************************************************************************)
\* a resolver that gives nothing back when the probe fails
resolve_final_url_failstop(url, probe) == IF probe = "ok" THEN Final(url) ELSE NoUrl

resolve_final_url(url, probe) == IF probe = "ok" THEN Final(url) ELSE url

(***************************************************************************)
(* download_file, lines 58-88.  io is what the file system, the headers    *)
(* and the body stream do: os.makedirs (line 61) and the int() of the      *)
(* content-length header (line 70) are outside the try block, so their     *)
(* OSError and ValueError propagate; an OSError of open or of a write, and *)
(* a failure of the body stream (a RequestException is an OSError), are    *)
(* caught at line 85.  open(..., "wb") truncates, so a failed write leaves *)
(* a partial file.                                                         *)
(***************************************************************************)
Content(url, complete) == [from |-> url, complete |-> complete]

Put(fs, name, content) ==
    [n \in DOMAIN fs \cup {name} |-> IF n = name THEN content ELSE fs[n]]

\* os.makedirs(exist_ok=True) cannot fail once the directory holds a file
IoPossible(fs) ==
    IF DOMAIN fs = {} THEN IoOutcomes ELSE IoOutcomes \ {"mkdir_error"}

\* a fetcher that does not look at the overwrite option
download_file_clobber(fs, resp, name, ow, io) ==
    IF io = "mkdir_error" THEN [files |-> fs, result |-> "raised"]
    ELSE IF io = "length_error" THEN [files |-> fs, result |-> "raised"]
    ELSE IF io = "open_error" THEN [files |-> fs, result |-> "os_error"]
    ELSE IF io = "write_error"
         THEN [files |-> Put(fs, name, Content(resp.url, FALSE)), result |-> "os_error"]
    ELSE [files |-> Put(fs, name, Content(resp.url, TRUE)), result |-> "downloaded"]

download_file(fs, resp, name, ow, io) ==
    IF io = "mkdir_error" THEN [files |-> fs, result |-> "raised"]
    ELSE IF ~ow /\ name \in DOMAIN fs THEN [files |-> fs, result |-> "skipped"]
    ELSE IF io = "length_error" THEN [files |-> fs, result |-> "raised"]
    ELSE IF io = "open_error" THEN [files |-> fs, result |-> "os_error"]
    ELSE IF io = "write_error"
         THEN [files |-> Put(fs, name, Content(resp.url, FALSE)), result |-> "os_error"]
    ELSE [files |-> Put(fs, name, Content(resp.url, TRUE)), result |-> "downloaded"]

(***************************************************************************)
(* urljoin(final_url, href), line 211, for an absolute href, a href that   *)
(* starts with "/" and a href relative to the directory of the page.       *)
(***************************************************************************)
urljoin_raises(href) == Len(href) >= 4 /\ href[1] = "http:" /\ href[4] = "["

urljoin(base, href) ==
    IF href # <<>> /\ Head(href) = "http:" THEN href
    ELSE IF href # <<>> /\ Head(href) = "/" THEN SubSeq(base, 1, 4) \o href
    ELSE SubSeq(base, 1, Max(Positions(urlparse_path(base), {"/"}) \cup {0}) + 4) \o href

\* href.lower().endswith(".pdf"), line 236
ends_with_pdf(href) == href # <<>> /\ Last(href) \in {"a.pdf", "1.pdf", "A.PDF"}

\* a scan that queues the direct-download links with the others
classify_queue_all(anchor) ==
    IF "download" \in anchor.class /\ anchor.download THEN "candidate"
    ELSE IF "pdf" \in anchor.class \/ ends_with_pdf(anchor.href) THEN "candidate"
    ELSE "none"

\* the branch of lines 213 and 236 an anchor takes
classify(anchor) ==
    IF "download" \in anchor.class /\ anchor.download THEN "direct"
    ELSE IF "pdf" \in anchor.class \/ ends_with_pdf(anchor.href) THEN "candidate"
    ELSE "none"

(***************************************************************************)
(* process_url_queue, lines 118-257.                                       *)
(***************************************************************************)
StartUrls == {V, P, A, NoUrl}

RECURSIVE SeqsUpTo(_, _)
SeqsUpTo(S, n) ==
    IF n = 0 THEN {<<>>}
    ELSE SeqsUpTo(S, n - 1) \cup
         {Append(q, x) : q \in {r \in SeqsUpTo(S, n - 1) : Len(r) = n - 1}, x \in S}

StartLists == SeqsUpTo(StartUrls, MaxStart) \ {<<>>}

Webs == {w \in [Urls -> {"application/pdf", "Application/PDF",
                         "text/html; charset=utf-8", "image/png"}] :
            \A u \in Urls : w[u] \in MediaTypes(u)}

\* a URL that redirects serves no body of its own: its media type is fixed
Unserved(url) == IF url = A THEN "Application/PDF" ELSE "application/pdf"

\* the responses that are open: the with-block's and an unconsumed direct one
OpenResponses == {r \in {response, pdf_response} : ~r.closed}

Init ==
    /\ queue \in StartLists
    /\ visited_urls = {}
    /\ pc = "loop"
    /\ current_url = NoUrl
    /\ resolved_download_url = NoUrl
    /\ resolved_url = NoUrl
    /\ response = NoResponse
    /\ idx = 0
    /\ absolute_link = NoUrl
    /\ links = <<>>
    /\ pdf_response = NoResponse
    /\ filename = <<>>
    /\ saved = "none"
    /\ files = <<>>
    /\ overwrite \in BOOLEAN
    /\ moved \in SUBSET CanMove
    /\ ctype \in {w \in Webs : \A u \in moved : w[u] = Unserved(u)}
    /\ head_ok = "none"
    /\ fetched = {}
    /\ refetched = FALSE
    /\ event = "start"

\* a mark that is forgotten
visit_forget(visited, url) == visited

\* a mark that keeps only the last URL
visit_only(visited, url) == {url}

\* visited_urls.add(url), lines 162 and 173
visit(visited, url) == visited \cup {url}

\* new links put behind the queue
prioritize_back(new_links, old_queue) == old_queue \o new_links

\* deque(links) + queue, line 243
prioritize(new_links, old_queue) == new_links \o old_queue

\* the with block's response once the block is left
Closed(resp) == [resp EXCEPT !.closed = TRUE]

\* a GET request to url is issued
Get(url) ==
    /\ fetched' = fetched \cup {url}
    /\ refetched' = (refetched \/ url \in fetched)

\* a test that passes over empty URLs only
skip_empty(url, visited) == url = NoUrl

\* line 132: not current_url or current_url in visited_urls
skip(url, visited) == url = NoUrl \/ url \in visited

\* lines 129-143: pop, skip a visited URL, try the pattern.  The locals of
\* the previous iteration are dead here and are reset; pdf_response is kept,
\* it still refers to the last direct-link response.
Pop ==
    /\ pc = "loop"
    /\ queue # <<>>
    /\ current_url' = Head(queue)
    /\ queue' = Tail(queue)
    /\ IF skip(Head(queue), visited_urls)
       THEN pc' = "loop" /\ event' = "skipped"
       ELSE /\ pc' = IF article_view_match(Head(queue)) THEN "try_download" ELSE "resolve"
            /\ event' = "popped"
    /\ resolved_download_url' = NoUrl
    /\ resolved_url' = NoUrl
    /\ response' = NoResponse
    /\ absolute_link' = NoUrl
    /\ links' = <<>>
    /\ idx' = 0
    /\ filename' = <<>>
    /\ saved' = "none"
    /\ head_ok' = "none"
    /\ UNCHANGED <<visited_urls, pdf_response, files, overwrite, moved, ctype,
                   fetched, refetched>>

\* line 129: the queue is empty, process_url_queue returns
Return ==
    /\ pc = "loop"
    /\ queue = <<>>
    /\ pc' = "done"
    /\ event' = "complete"
    /\ UNCHANGED <<queue, visited_urls, current_url, resolved_download_url,
                   resolved_url, response, idx, absolute_link, links,
                   pdf_response, filename, saved, files, overwrite, moved,
                   ctype, head_ok, fetched, refetched>>

\* lines 141-145: derive the download URL and resolve it
ResolveDownload ==
    /\ pc = "try_download"
    /\ \E probe \in {"ok", "error"} :
          /\ resolved_download_url' = resolve_final_url(replace_view(current_url), probe)
          /\ head_ok' = probe
    /\ pc' = "get_download"
    /\ event' = "trying"
    /\ UNCHANGED <<queue, visited_urls, current_url, resolved_url, response,
                   idx, absolute_link, links, pdf_response, filename, saved,
                   files, overwrite, moved, ctype, fetched, refetched>>

\* lines 149-167: fetch the derived URL; a PDF is saved and ends the
\* iteration, anything else (an exception of download_file included, line
\* 166) leads on to line 169
GetDownload ==
    /\ pc = "get_download"
    /\ Get(resolved_download_url)
    /\ \E net \in NetOutcomes, io \in IoPossible(files) :
          LET r    == http_get(resolved_download_url, net)
              name == get_filename_from_response(r)
              d    == download_file(files, r, name, overwrite, io)
          IN  /\ response' = IF r.status = "conn_error" THEN response ELSE Closed(r)
              /\ IF Succeeded(r) /\ is_pdf(r.content_type)
                 THEN /\ filename' = name
                      /\ files' = d.files
                      /\ saved' = d.result
                      /\ IF d.result = "raised"
                         THEN /\ event' = "direct_failed"
                              /\ pc' = "resolve"
                              /\ UNCHANGED visited_urls
                         ELSE /\ event' = "direct_ok"
                              /\ pc' = "loop"
                              /\ visited_urls' = visit(visited_urls, resolved_download_url)
                 ELSE /\ io = "ok"
                      /\ event' = IF Succeeded(r) THEN "direct_not_pdf" ELSE "direct_failed"
                      /\ pc' = "resolve"
                      /\ UNCHANGED <<visited_urls, filename, saved, files>>
    /\ head_ok' = "none"
    /\ UNCHANGED <<queue, current_url, resolved_download_url, resolved_url,
                   idx, absolute_link, links, pdf_response, overwrite, moved,
                   ctype>>

\* line 169: resolve the popped URL
ResolveCurrent ==
    /\ pc = "resolve"
    /\ \E probe \in {"ok", "error"} :
          /\ resolved_url' = resolve_final_url(current_url, probe)
          /\ head_ok' = probe
    /\ pc' = "fetch"
    /\ event' = "processing"
    /\ UNCHANGED <<queue, visited_urls, current_url, resolved_download_url,
                   response, idx, absolute_link, links, pdf_response, filename,
                   saved, files, overwrite, moved, ctype, fetched, refetched>>

\* lines 173-196 and 247-257: mark visited, fetch, dispatch on the media
\* type.  body is the read of response.text (line 196).
FetchResolved ==
    /\ pc = "fetch"
    /\ visited_urls' = visit(visited_urls, resolved_url)
    /\ Get(resolved_url)
    /\ \E net \in NetOutcomes, io \in IoPossible(files), body \in {"ok", "error"} :
          LET r    == http_get(resolved_url, net)
              name == get_filename_from_response(r)
              d    == download_file(files, r, name, overwrite, io)
          IN  IF ~Succeeded(r)
              THEN /\ io = "ok" /\ body = "ok"
                   /\ response' = IF r.status = "conn_error" THEN response ELSE Closed(r)
                   /\ event' = "network_error"
                   /\ pc' = "loop"
                   /\ UNCHANGED <<filename, saved, files, idx>>
              ELSE IF is_pdf(r.content_type)
              THEN /\ body = "ok"
                   /\ response' = Closed(r)
                   /\ filename' = name
                   /\ files' = d.files
                   /\ saved' = d.result
                   /\ event' = IF d.result = "raised" THEN "unexpected_error" ELSE "saved"
                   /\ pc' = "loop"
                   /\ UNCHANGED idx
              ELSE IF is_html(r.content_type)
              THEN /\ io = "ok"
                   /\ IF body = "ok"
                      THEN /\ response' = r
                           /\ idx' = 1
                           /\ event' = "scanning"
                           /\ pc' = "scan"
                      ELSE /\ response' = Closed(r)
                           /\ event' = "network_error"
                           /\ pc' = "loop"
                           /\ UNCHANGED idx
                   /\ UNCHANGED <<filename, saved, files>>
              ELSE /\ io = "ok" /\ body = "ok"
                   /\ response' = Closed(r)
                   /\ event' = "unhandled"
                   /\ pc' = "loop"
                   /\ UNCHANGED <<filename, saved, files, idx>>
    /\ head_ok' = "none"
    /\ UNCHANGED <<queue, current_url, resolved_download_url, resolved_url,
                   absolute_link, links, pdf_response, overwrite, moved, ctype>>

\* a filter that looks at the visited set only
unseen_unvisited(link, visited, pending) == link \notin visited

\* lines 237-240: absolute_link not in visited_urls and not in queue
unseen(link, visited, pending) ==
    /\ link \notin visited
    /\ \A i \in 1..Len(pending) : pending[i] # link

\* lines 198-212 and 236-242: one anchor of the page; a ValueError of
\* urljoin ends the page at line 254
ScanAnchor ==
    /\ pc = "scan"
    /\ idx <= Len(PageAnchors(response.url))
    /\ LET anchor == PageAnchors(response.url)[idx]
           link   == urljoin(response.url, anchor.href)
       IN  IF urljoin_raises(anchor.href)
           THEN /\ event' = "unexpected_error"
                /\ pc' = "loop"
                /\ response' = Closed(response)
                /\ UNCHANGED <<absolute_link, links, idx>>
           ELSE /\ absolute_link' = link
                /\ UNCHANGED response
                /\ IF classify(anchor) = "direct"
                   THEN /\ pc' = "resolve_link"
                        /\ event' = "direct_link"
                        /\ UNCHANGED <<links, idx>>
                   ELSE /\ pc' = "scan"
                        /\ idx' = idx + 1
                        /\ IF /\ classify(anchor) = "candidate"
                              /\ unseen(link, visited_urls, queue)
                           THEN links' = Append(links, link) /\ event' = "candidate"
                           ELSE UNCHANGED links /\ event' = "not_emitted"
    /\ UNCHANGED <<queue, visited_urls, current_url, resolved_download_url,
                   resolved_url, pdf_response, filename, saved, files,
                   overwrite, moved, ctype, head_ok, fetched, refetched>>

\* line 214: resolve a direct-download link
ResolveLink ==
    /\ pc = "resolve_link"
    /\ \E probe \in {"ok", "error"} :
          /\ absolute_link' = resolve_final_url(absolute_link, probe)
          /\ head_ok' = probe
    /\ pc' = "get_link"
    /\ event' = "link_resolved"
    /\ UNCHANGED <<queue, visited_urls, current_url, resolved_download_url,
                   resolved_url, response, idx, links, pdf_response, filename,
                   saved, files, overwrite, moved, ctype, fetched, refetched>>

\* a handler that gives up the page
on_link_failure_abort == "loop"

\* lines 232-235: the except clause of a direct-download link logs the error
\* and the anchor loop goes on
on_link_failure == "scan"

\* lines 215-235: fetch and save a direct-download link that is not visited.
\* pdf_response is bound when requests.get returns and is never closed; the
\* connection is released only when download_file reads the body to its end.
GetLink ==
    /\ pc = "get_link"
    /\ IF absolute_link \in visited_urls
       THEN /\ event' = "link_visited"
            /\ UNCHANGED <<pdf_response, filename, saved, files, fetched, refetched>>
       ELSE /\ Get(absolute_link)
            /\ \E net \in NetOutcomes, io \in IoPossible(files) :
                  LET r    == http_get(absolute_link, net)
                      name == get_filename_from_response(r)
                      d    == download_file(files, r, name, overwrite, io)
                  IN  IF r.status = "conn_error"
                      THEN /\ io = "ok"
                           /\ event' = "link_failed"
                           /\ UNCHANGED <<pdf_response, filename, saved, files>>
                      ELSE IF ~Succeeded(r)
                      THEN /\ io = "ok"
                           /\ event' = "link_failed"
                           /\ pdf_response' = r
                           /\ UNCHANGED <<filename, saved, files>>
                      ELSE /\ filename' = name
                           /\ files' = d.files
                           /\ saved' = d.result
                           /\ pdf_response' = [r EXCEPT !.closed = (d.result = "downloaded")]
                           /\ event' = IF d.result = "raised" THEN "link_failed" ELSE "link_saved"
    /\ idx' = idx + 1
    /\ pc' = IF event' = "link_failed" THEN on_link_failure ELSE "scan"
    /\ head_ok' = "none"
    /\ UNCHANGED <<queue, visited_urls, current_url, resolved_download_url,
                   resolved_url, response, absolute_link, links, overwrite,
                   moved, ctype>>

\* line 243 and the end of the with block: the new links go in front
PrependLinks ==
    /\ pc = "scan"
    /\ idx > Len(PageAnchors(response.url))
    /\ queue' = prioritize(links, queue)
    /\ response' = Closed(response)
    /\ event' = "extracted"
    /\ pc' = "loop"
    /\ UNCHANGED <<visited_urls, current_url, resolved_download_url,
                   resolved_url, idx, absolute_link, links, pdf_response,
                   filename, saved, files, overwrite, moved, ctype, head_ok,
                   fetched, refetched>>

(***************************************************************************)
(* The document fetcher alone: the two calls of lines 189-190 on a         *)
(* response, a directory and an option drawn from bounded sets.            *)
(***************************************************************************)
HeaderTokens == {"filename*=UTF-8''", "filename=", ";", "\"", "a"}

Headers == SeqsUpTo(HeaderTokens, MaxHdrLen)

ResponseUrls == {P, Http \o <<"/", "docs", "/">>,
                 Http \o <<"/", "docs", "/", "r.pdf", "?", "x=1">>}

OldFile == Content(NoUrl, TRUE)

Directories == {<<>>} \cup {Put(<<>>, n, OldFile) : n \in {<<"a">>, <<"r.pdf">>}}

SaveInit ==
    /\ queue = <<>>
    /\ visited_urls = {}
    /\ pc = "name"
    /\ current_url = NoUrl
    /\ resolved_download_url = NoUrl
    /\ resolved_url = NoUrl
    /\ \E h \in Headers, u \in ResponseUrls :
          response = [status |-> "ok", url |-> u, content_type |-> "application/pdf",
                      content_disposition |-> h, closed |-> FALSE]
    /\ idx = 0
    /\ absolute_link = NoUrl
    /\ links = <<>>
    /\ pdf_response = NoResponse
    /\ filename = <<>>
    /\ saved = "none"
    /\ files \in Directories
    /\ overwrite \in BOOLEAN
    /\ moved = {}
    /\ ctype = [u \in Urls |-> "application/pdf"]
    /\ head_ok = "none"
    /\ fetched = {}
    /\ refetched = FALSE
    /\ event = "start"

\* line 189: filename = get_filename_from_response(response)
DeriveName ==
    /\ pc = "name"
    /\ filename' = get_filename_from_response(response)
    /\ pc' = "download"
    /\ UNCHANGED <<queue, visited_urls, current_url, resolved_download_url,
                   resolved_url, response, idx, absolute_link, links,
                   pdf_response, saved, files, overwrite, moved, ctype,
                   head_ok, fetched, refetched, event>>

\* line 190: download_file(response, filename, output_dir, overwrite)
Download ==
    /\ pc = "download"
    /\ \E io \in IoPossible(files) :
          LET d == download_file(files, response, filename, overwrite, io)
          IN  /\ files' = d.files
              /\ saved' = d.result
    /\ pc' = "saved"
    /\ UNCHANGED <<queue, visited_urls, current_url, resolved_download_url,
                   resolved_url, response, idx, absolute_link, links,
                   pdf_response, filename, overwrite, moved, ctype, head_ok,
                   fetched, refetched, event>>

SaveNext == DeriveName \/ Download

SaveSpec == SaveInit /\ [][SaveNext]_vars

(***************************************************************************)
(* The pattern test alone: lines 130-145 on one URL drawn from paths,      *)
(* query strings and fragments with and without the article/view shape.    *)
(***************************************************************************)
ViewShape == <<"/", "j", "/", "article", "/", "view", "/", "1", "/", "2">>

MatchPaths == {<<"/", "p">>,
               ViewShape,
               <<"/", "j", "/", "article", "/", "view", "/", "1">>,
               <<"/", "article", "/", "view", "/", "1", "/", "2">>,
               <<"/", "j", "/", "article", "/", "download", "/", "1", "/", "2">>}

MatchQueries == {<<>>, <<"?", "x=1">>, <<"?", "next=">> \o ViewShape}

MatchFragments == {<<>>, <<"#", "top">>, <<"#">> \o ViewShape}

MatchUrls == {Http \o p \o q \o f : p \in MatchPaths, q \in MatchQueries,
                                    f \in MatchFragments}

MatchInit ==
    /\ queue \in {<<u>> : u \in MatchUrls}
    /\ visited_urls = {}
    /\ pc = "loop"
    /\ current_url = NoUrl
    /\ resolved_download_url = NoUrl
    /\ resolved_url = NoUrl
    /\ response = NoResponse
    /\ idx = 0
    /\ absolute_link = NoUrl
    /\ links = <<>>
    /\ pdf_response = NoResponse
    /\ filename = <<>>
    /\ saved = "none"
    /\ files = <<>>
    /\ overwrite = FALSE
    /\ moved = {}
    /\ ctype = [u \in Urls |-> "text/html; charset=utf-8"]
    /\ head_ok = "none"
    /\ fetched = {}
    /\ refetched = FALSE
    /\ event = "start"

MatchNext == Pop \/ ResolveDownload

MatchSpec == MatchInit /\ [][MatchNext]_vars

Next ==
    \/ Pop
    \/ Return
    \/ ResolveDownload
    \/ GetDownload
    \/ ResolveCurrent
    \/ FetchResolved
    \/ ScanAnchor
    \/ ResolveLink
    \/ GetLink
    \/ PrependLinks

Spec == Init /\ [][Next]_vars

(***************************************************************************)
(* The crawl under Ctrl-C.  No signal handler is installed: the interpreter*)
(* raises KeyboardInterrupt wherever the main thread is.  It is not an     *)
(* Exception, so none of the except clauses of process_url_queue and       *)
(* download_file catches it; the with blocks it leaves close the response  *)
(* and the output file, and lines 324-328 report it and exit.              *)
(***************************************************************************)
\* the URL the request at pc goes to
RequestUrl ==
    CASE pc = "get_download" -> resolved_download_url
      [] pc = "fetch" -> resolved_url
      [] OTHER -> absolute_link

\* the interrupt arrives at any point but the write loop of download_file
Interrupt ==
    /\ pc \notin {"done", "interrupted"}
    /\ pc' = "interrupted"
    /\ event' = "interrupted"
    /\ response' = Closed(response)
    /\ UNCHANGED <<queue, visited_urls, current_url, resolved_download_url,
                   resolved_url, idx, absolute_link, links, pdf_response,
                   filename, saved, files, overwrite, moved, ctype, head_ok,
                   fetched, refetched>>

\* the interrupt arrives inside the write loop of lines 79-82: the file was
\* opened for writing (truncated) and holds what was written so far, as
\* after a failed write
InterruptWrite ==
    /\ pc \in {"get_download", "fetch", "get_link"}
    /\ pc = "get_link" => absolute_link \notin visited_urls
    /\ LET r    == http_get(RequestUrl, "ok")
           name == get_filename_from_response(r)
           d    == download_file(files, r, name, overwrite, "write_error")
       IN  /\ Succeeded(r)
           /\ pc = "get_link" \/ is_pdf(r.content_type)
           /\ d.result = "os_error"
           /\ files' = d.files
           /\ filename' = name
           /\ response' = IF pc = "get_link" THEN Closed(response) ELSE Closed(r)
           /\ pdf_response' = IF pc = "get_link" THEN r ELSE pdf_response
    /\ Get(RequestUrl)
    /\ visited_urls' = IF pc = "fetch" THEN visit(visited_urls, resolved_url)
                                      ELSE visited_urls
    /\ saved' = "interrupted"
    /\ pc' = "interrupted"
    /\ event' = "interrupted"
    /\ UNCHANGED <<queue, current_url, resolved_download_url, resolved_url,
                   idx, absolute_link, links, overwrite, moved, ctype, head_ok>>

InterruptNext == Next \/ Interrupt \/ InterruptWrite

InterruptSpec == Init /\ [][InterruptNext]_vars

\* a list that holds no URL twice
Distinct(list) == \A i, j \in 1..Len(list) : i # j => list[i] # list[j]

\* the crawl of a list of pairwise distinct URLs
DistinctInit == Init /\ Distinct(queue)

DistinctSpec == DistinctInit /\ [][Next]_vars

\* the loop is sequential code: it takes its next step whenever it has one
FairSpec == Spec /\ WF_vars(Next)

(***************************************************************************)
(* The claims.                                                             *)
(***************************************************************************)

\* C1: no two GET requests of a crawl (of the derived download URL, of a
\* resolved popped URL, of a direct-download link) target the same URL.
C1_NoDuplicateFetch == ~refetched

\* the accepted candidate links of the first n anchors of the page at url,
\* in document order, against the visited set and the queue as they are
RECURSIVE Accepted(_, _)
Accepted(url, n) ==
    IF n = 0 THEN <<>>
    ELSE LET anchor == PageAnchors(url)[n]
             link   == urljoin(url, anchor.href)
         IN  IF /\ ~("download" \in anchor.class /\ anchor.download)
                /\ ("pdf" \in anchor.class \/ ends_with_pdf(anchor.href))
                /\ link \notin visited_urls
                /\ link \notin {queue[i] : i \in 1..Len(queue)}
             THEN Append(Accepted(url, n - 1), link)
             ELSE Accepted(url, n - 1)

\* C2: while a page is scanned, links holds the candidate links accepted so
\* far in document order; when the scan ends with links = [L1..Ln] and the
\* queue [Q1..Qm], the queue becomes [L1..Ln, Q1..Qm]; and every pop takes
\* the head of the queue, so the next pops are L1..Ln and then Q1.
C2_Prioritization ==
    /\ [](pc \in {"scan", "resolve_link", "get_link"}
            => links = Accepted(response.url, IF pc = "scan" THEN idx - 1 ELSE idx))
    /\ [][pc = "scan" /\ idx > Len(PageAnchors(response.url))
            => queue' = links \o queue]_vars
    /\ [][pc = "loop" /\ queue # <<>>
            => current_url' = Head(queue) /\ queue' = Tail(queue)]_vars

\* a page gave two links that were put in front of a non-empty queue
C2_Witness ==
    /\ pc = "loop" /\ event = "extracted"
    /\ Len(links) >= 2
    /\ Len(queue) > Len(links)
    /\ SubSeq(queue, 1, Len(links)) = links

\* the media types that contain application/pdf once in lower case
PdfTypes == {"application/pdf", "Application/PDF"}

\* the GET of the derived URL returned a success status and a PDF media type
DerivedIsPdf == Succeeded(response') /\ response'.content_type \in PdfTypes

\* C3 as stated: whenever the fetch of the derived URL succeeds with a PDF
\* media type, the file is saved, the derived resolved URL is marked visited
\* and the iteration ends without processing the view URL; the queue is left
\* alone.
C3_AsStated ==
    [][pc = "get_download" /\ DerivedIsPdf
         => /\ filename' \in DOMAIN files'
            /\ files'[filename'] = Content(response'.url, TRUE)
            /\ visited_urls' = visited_urls \cup {resolved_download_url}
            /\ pc' = "loop"
            /\ queue' = queue]_vars

\* C3, amended: whenever the fetch of the derived URL succeeds with a PDF
\* media type, download_file is called once with the name derived from that
\* response; if it returns (file written, skipped as existing, or an OSError
\* logged) the derived resolved URL is marked visited and the iteration ends
\* without resolving or fetching the view URL; if it raises (the output
\* directory cannot be created, or the content-length header is not a
\* number) nothing is marked and the view URL is processed by the generic
\* path.  The queue is left alone either way, and
\* a written file holds the body of the response.
C3_DirectDownload ==
    [][pc = "get_download" /\ DerivedIsPdf
         => /\ filename' = get_filename_from_response(response')
            /\ saved' \in {"downloaded", "skipped", "os_error", "raised"}
            /\ saved' = "downloaded" => files' = Put(files, filename', Content(response'.url, TRUE))
            /\ saved' \in {"skipped", "raised"} => files' = files
            /\ saved' # "raised"
                 => /\ visited_urls' = visited_urls \cup {resolved_download_url}
                    /\ pc' = "loop"
                    /\ resolved_url' = NoUrl
                    /\ fetched' = fetched \cup {resolved_download_url}
            /\ saved' = "raised"
                 => visited_urls' = visited_urls /\ pc' = "resolve"
            /\ queue' = queue /\ current_url' = current_url]_vars

\* the derived URL, which redirects, served a PDF that was written, and the
\* iteration is over with the resolved derived URL visited
C3_Witness ==
    /\ pc = "loop" /\ event = "direct_ok" /\ saved = "downloaded"
    /\ article_view_match(current_url)
    /\ resolved_download_url # replace_view(current_url)
    /\ resolved_download_url \in visited_urls
    /\ current_url \notin visited_urls
    /\ resolved_url = NoUrl

\* C4: whenever the fetch of the derived URL fails (connection error, error
\* status, or a media type that is not PDF) nothing is saved, nothing is
\* marked visited, and the popped URL goes on to the generic path (line 169)
\* with the queue as it was; a view URL reaches the generic path only after
\* its derived URL was fetched.
C4_RewriteFallback ==
    /\ [][pc = "get_download" /\ ~DerivedIsPdf
            => /\ files' = files /\ saved' = "none"
               /\ visited_urls' = visited_urls
               /\ pc' = "resolve"
               /\ current_url' = current_url
               /\ queue' = queue]_vars
    /\ [](pc \in {"resolve", "fetch"} /\ article_view_match(current_url)
            => resolved_download_url \in fetched)
    /\ [][pc = "loop" /\ queue # <<>> /\ pc' \notin {"loop", "try_download"}
            => pc' = "resolve" /\ ~article_view_match(current_url')]_vars

\* the derived fetch failed and the view URL is now fetched by the generic path
C4_Witness ==
    /\ pc = "fetch"
    /\ article_view_match(current_url)
    /\ resolved_download_url \in fetched
    /\ resolved_url \notin fetched
    /\ saved = "none"
    /\ visited_urls = {}

\* an iteration ended on a caught error of the generic path
ErrorEvents == {"network_error", "unexpected_error"}

\* C5: when the generic fetch fails or an error is raised while its response
\* is processed, the error is caught: the queue is as it was after the pop,
\* the resolved URL stays visited, the loop goes on to its next pop, and
\* every URL still queued is eventually popped (the queue runs empty).
C5_BadPageNeverAborts ==
    /\ [][(pc \in {"fetch", "scan"}) /\ event' \in ErrorEvents
            => /\ queue' = queue
               /\ pc' = "loop"
               /\ (resolved_url \in visited_urls')]_vars
    /\ [][(pc \in {"try_download", "get_download", "resolve", "fetch",
                   "resolve_link", "get_link"}) => queue' = queue]_vars
    /\ [][(visited_urls \subseteq visited_urls')]_vars
    /\ (pc = "loop" /\ event \in ErrorEvents) ~> (queue = <<>>)

\* C6: every crawl ends: process_url_queue reaches an empty queue and returns.
C6_Termination == <>(pc = "done")

\* C7: resolve_final_url gives the end of the redirect chain when the probe
\* succeeds and its input when the probe fails; at each of its three call
\* sites the crawl then goes on to the next statement with the queue and the
\* visited set as they were.
C7_ResolverFailOpen ==
    /\ [][pc = "try_download"
            => /\ resolved_download_url' =
                    (IF head_ok' = "ok" THEN Final(replace_view(current_url))
                                       ELSE replace_view(current_url))
               /\ pc' = "get_download"]_vars
    /\ [][pc = "resolve"
            => /\ resolved_url' = (IF head_ok' = "ok" THEN Final(current_url) ELSE current_url)
               /\ pc' = "fetch"]_vars
    /\ [][pc = "resolve_link"
            => /\ absolute_link' = (IF head_ok' = "ok" THEN Final(absolute_link) ELSE absolute_link)
               /\ pc' = "get_link"]_vars
    /\ [][(pc \in {"try_download", "resolve", "resolve_link"})
            => /\ head_ok' \in {"ok", "error"}
               /\ queue' = queue
               /\ visited_urls' = visited_urls]_vars

\* the probe of a direct-download link that redirects failed, and the crawl
\* goes on with the link as it was
C7_Witness ==
    /\ pc = "get_link"
    /\ head_ok = "error"
    /\ absolute_link \in moved
    /\ Final(absolute_link) # absolute_link

\* C8: whenever the main loop is about to begin an iteration, no response of
\* an earlier iteration is still open.
C8_ResourcesClosed == pc = "loop" => OpenResponses = {}

\* a file is present at the target path and must not be replaced
SkipCase == ~overwrite /\ filename \in DOMAIN files

\* C9 as stated: with overwrite false and the file present nothing is written
\* and a skip is reported; otherwise the file's content becomes the body.
C9_AsStated ==
    [][pc = "download"
         => IF SkipCase
            THEN files' = files /\ saved' = "skipped"
            ELSE files' = Put(files, filename, Content(response.url, TRUE))]_vars

\* C9, amended: with overwrite false and the file present nothing is written,
\* the file is unchanged and a skip is reported; otherwise no skip is reported
\* and, unless an OSError occurs, the file's content becomes the body,
\* replacing any previous content and no other file.  When the call raises
\* (the directory cannot be created, the content-length header is not a
\* number) nothing is written; on a caught OSError nothing is written (the
\* file could not be opened) or the file is left partial (the write failed).
C9_SkipExisting ==
    [][pc = "download"
         => IF SkipCase
            THEN files' = files /\ saved' = "skipped"
            ELSE /\ saved' \in {"downloaded", "os_error", "raised"}
                 /\ saved' = "downloaded"
                      => files' = Put(files, filename, Content(response.url, TRUE))
                 /\ saved' = "os_error"
                      => \/ files' = files
                         \/ files' = Put(files, filename, Content(response.url, FALSE))
                 /\ saved' = "raised" => files' = files]_vars

\* the file was present, overwrite was off, and the old file is still there
C9_Witness ==
    /\ pc = "saved" /\ saved = "skipped"
    /\ ~overwrite
    /\ filename \in DOMAIN files
    /\ files[filename] = OldFile

\* the value of the directive at position i of a header: what follows it up
\* to the next ";"
ValueAfter(header, i) ==
    SubSeq(header, i + 1,
           Min({j \in (i+1)..Len(header) : header[j] = ";"} \cup {Len(header) + 1}) - 1)

\* the value of the first directive of that name that has a value
DirectiveValue(header, directive) ==
    LET at == {i \in 1..Len(header) : header[i] = directive /\ ValueAfter(header, i) # <<>>}
    IN  IF at = {} THEN <<>> ELSE ValueAfter(header, Min(at))

\* a value without the quotes around it
Unquoted(value) ==
    LET inner == {k \in 1..Len(value) : value[k] \notin {"\"", "'"}}
    IN  IF inner = {} THEN <<>> ELSE SubSeq(value, Min(inner), Max(inner))

\* the last path segment of a URL http://host/..., the query excluded
LastSegment(url) ==
    LET stop    == Min({j \in 5..Len(url) : url[j] \in {"?", "#"}} \cup {Len(url) + 1})
        slashes == {j \in 5..(stop - 1) : url[j] = "/"}
    IN  IF slashes = {} THEN <<>> ELSE SubSeq(url, Max(slashes) + 1, stop - 1)

StarName(resp) == DirectiveValue(resp.content_disposition, "filename*=UTF-8''")
PlainName(resp) == Unquoted(DirectiveValue(resp.content_disposition, "filename="))

\* C10: the name comes from the filename*=UTF-8'' directive when the header
\* has one; else from the filename= directive, its quotes stripped; else from
\* the last path segment of the response's URL, the query excluded; else it
\* is downloaded.pdf.  A source is used only when those before it are absent
\* or empty.  (The name is then percent-decoded and sanitised, line 107.)
C10_FilenamePriority ==
    pc \in {"download", "saved"} =>
        filename = sanitize(IF StarName(response) # <<>> THEN StarName(response)
                            ELSE IF PlainName(response) # <<>> THEN PlainName(response)
                            ELSE IF LastSegment(response.url) # <<>> THEN LastSegment(response.url)
                            ELSE <<"downloaded.pdf">>)

\* a header whose filename= directive comes before its filename*= directive:
\* the name is the one of filename*=
C10_Witness ==
    /\ pc = "download"
    /\ StarName(response) # <<>>
    /\ PlainName(response) # <<>>
    /\ PlainName(response) # StarName(response)
    /\ Head(response.content_disposition) = "filename="
    /\ filename = sanitize(StarName(response))
    /\ PlainName(response) # <<>>
    /\ StarName(response) # PlainName(response)
    /\ response.content_disposition[1] = "filename="
    /\ filename = sanitize(StarName(response))

\* the media types that contain text/html once in lower case
HtmlTypes == {"text/html", "text/html; charset=utf-8"}

\* the generic GET returned a success status and its body could be read
GenericFetched == pc = "fetch" /\ event' # "network_error"

\* C11 as stated: after a successful generic fetch a PDF media type leads to
\* one saved file and no link extraction, an HTML media type to link
\* extraction and no save, and any other type leaves the queue, the visited
\* set (beyond the mark of this URL) and the files as they were.
C11_AsStated ==
    [][GenericFetched
         => IF response'.content_type \in PdfTypes
            THEN /\ files' = Put(files, filename', Content(response'.url, TRUE))
                 /\ pc' = "loop" /\ queue' = queue
            ELSE IF response'.content_type \in HtmlTypes
            THEN pc' = "scan" /\ files' = files
            ELSE /\ pc' = "loop" /\ queue' = queue /\ files' = files
                 /\ visited_urls' = visited_urls \cup {resolved_url}]_vars

\* C11, amended: after a successful generic fetch a PDF media type leads to
\* exactly one call of download_file, with the name derived from the
\* response, and to no link extraction: the file is written, or it is skipped
\* because it exists and overwrite is off, or the call fails (nothing written
\* or a partial file); an HTML media type leads to link extraction, during
\* which the page itself is never saved; any other type is unhandled and
\* leaves the queue, the visited set (beyond the mark of this URL) and the
\* files as they were.
C11_ContentDispatch ==
    /\ [][GenericFetched
            => IF response'.content_type \in PdfTypes
               THEN /\ filename' = get_filename_from_response(response')
                    /\ saved' \in {"downloaded", "skipped", "os_error", "raised"}
                    /\ saved' = "downloaded"
                         => files' = Put(files, filename', Content(response'.url, TRUE))
                    /\ saved' \in {"skipped", "raised"} => files' = files
                    /\ saved' = "skipped" => ~overwrite /\ filename' \in DOMAIN files
                    /\ saved' = "os_error"
                         => \/ files' = files
                            \/ files' = Put(files, filename', Content(response'.url, FALSE))
                    /\ pc' = "loop" /\ queue' = queue /\ links' = <<>>
                    /\ event' \in {"saved", "unexpected_error"}
               ELSE IF response'.content_type \in HtmlTypes
               THEN /\ pc' = "scan" /\ idx' = 1 /\ event' = "scanning"
                    /\ files' = files /\ saved' = saved
               ELSE /\ event' = "unhandled"
                    /\ pc' = "loop" /\ queue' = queue /\ files' = files
                    /\ saved' = saved
                    /\ visited_urls' = visited_urls \cup {resolved_url}]_vars
    /\ [][pc = "scan" => files' = files /\ saved' = saved]_vars
    /\ [][pc = "get_link" /\ files' # files
            => /\ pdf_response'.url = Final(absolute_link)
               /\ files'[filename'].from = pdf_response'.url]_vars

\* a URL served as Application/PDF was fetched by the generic path and saved
C11_Witness ==
    /\ pc = "loop" /\ event = "saved" /\ saved = "downloaded"
    /\ response.content_type = "Application/PDF"
    /\ filename \in DOMAIN files
    /\ files[filename] = Content(response.url, TRUE)
    /\ links = <<>>

\* what resolve_final_url returned for url, given how its probe went
Resolved(url) == IF head_ok = "ok" THEN Final(url) ELSE url

\* C12: generic processing marks the resolved URL, and nothing else, when it
\* issues its fetch, whatever the fetch then does; the popped URL is marked
\* only when it is the resolved one.  The visited set changes only there and
\* at a successful rewrite, which marks the resolved derived URL; both marks
\* are values returned by resolve_final_url; and the set never loses a
\* member.
C12_VisitedMarking ==
    /\ [][pc = "fetch"
            => /\ visited_urls' = visited_urls \cup {resolved_url}
               /\ fetched' = fetched \cup {resolved_url}
               /\ current_url # resolved_url
                    => (current_url \in visited_urls' <=> current_url \in visited_urls)]_vars
    /\ [][visited_urls' # visited_urls
            => \/ pc = "fetch" /\ visited_urls' = visited_urls \cup {resolved_url}
               \/ /\ pc = "get_download" /\ DerivedIsPdf /\ pc' = "loop"
                  /\ visited_urls' = visited_urls \cup {resolved_download_url}]_vars
    /\ [](pc = "fetch" => resolved_url = Resolved(current_url))
    /\ [](pc = "get_download"
            => resolved_download_url = Resolved(replace_view(current_url)))
    /\ [][(visited_urls \subseteq visited_urls')]_vars

\* the generic fetch of a URL that redirects failed: the resolved URL is
\* marked, next to an older mark, and the popped URL is not
C12_Witness ==
    /\ pc = "loop" /\ event = "network_error"
    /\ resolved_url # current_url
    /\ resolved_url = Final(current_url)
    /\ resolved_url \in visited_urls
    /\ current_url \notin visited_urls
    /\ Cardinality(visited_urls) >= 2

\* the anchor the scan is at
CurrentAnchor == PageAnchors(response.url)[idx]

\* the scan of a page is under way
Extracting == pc \in {"scan", "resolve_link", "get_link"}

\* C13: every candidate link collected from a page, and so every link the
\* extraction puts in front of the queue, is neither visited nor queued when
\* the page is extracted, and comes from an anchor that is not a
\* direct-download one.  A direct-download link is resolved and then fetched
\* at once, inside the scan, if and only if its resolved form is not visited;
\* it is never added to the links or to the queue.
C13_LinkFiltering ==
    /\ [](Extracting
            => \A i \in 1..Len(links) :
                  /\ links[i] \notin visited_urls
                  /\ \A k \in 1..Len(queue) : queue[k] # links[i]
                  /\ \E n \in 1..Len(PageAnchors(response.url)) :
                        LET a == PageAnchors(response.url)[n]
                        IN  /\ ~("download" \in a.class /\ a.download)
                            /\ links[i] = urljoin(response.url, a.href))
    /\ [][pc = "scan" /\ queue' # queue
            => /\ queue' = links \o queue
               /\ \A i \in 1..Len(links) :
                     /\ links[i] \notin visited_urls
                     /\ \A k \in 1..Len(queue) : queue[k] # links[i]]_vars
    /\ [][Extracting => visited_urls' = visited_urls]_vars
    /\ [](pc \in {"resolve_link", "get_link"}
            => "download" \in CurrentAnchor.class /\ CurrentAnchor.download)
    /\ [](pc = "get_link"
            => absolute_link = Resolved(urljoin(response.url, CurrentAnchor.href)))
    /\ [][pc = "resolve_link" => pc' = "get_link" /\ fetched' = fetched]_vars
    /\ [][pc = "get_link"
            => /\ pc' = "scan" /\ idx' = idx + 1
               /\ IF absolute_link \in visited_urls
                  THEN fetched' = fetched /\ files' = files /\ event' = "link_visited"
                  ELSE fetched' = fetched \cup {absolute_link}
                         /\ event' \in {"link_saved", "link_failed"}]_vars
    /\ [][(pc \in {"resolve_link", "get_link"}) \/ (pc = "scan" /\ pc' = "resolve_link")
            => links' = links /\ queue' = queue]_vars

\* a page gave a candidate link and then a direct-download link that
\* redirects to a visited URL, which was passed over
C13_Witness ==
    /\ pc = "scan" /\ event = "link_visited"
    /\ links # <<>>
    /\ absolute_link \in visited_urls
    /\ absolute_link # urljoin(response.url, PageAnchors(response.url)[idx - 1].href)

\* C14: whatever the fetch and the save of a direct-download link do, the
\* scan goes on with the next anchor, with the page, the links collected so
\* far, the queue and the visited set as they were; after a failed link the
\* next anchor is classified as any anchor is (a direct-download one is
\* resolved and fetched, a candidate one is filtered), or, if there is none,
\* the links are put in front of the queue; and the links are at every point
\* all the accepted candidate links of the anchors scanned so far.
C14_LinkIsolation ==
    /\ [][pc = "get_link"
            => /\ pc' = "scan" /\ idx' = idx + 1
               /\ links' = links /\ queue' = queue
               /\ response' = response /\ ~response.closed
               /\ visited_urls' = visited_urls]_vars
    /\ [][pc = "scan" /\ event = "link_failed"
            => IF idx > Len(PageAnchors(response.url))
               THEN /\ queue' = Accepted(response.url, Len(PageAnchors(response.url))) \o queue
                    /\ pc' = "loop" /\ event' = "extracted"
               ELSE IF urljoin_raises(CurrentAnchor.href)
               THEN pc' = "loop" /\ event' = "unexpected_error"
               ELSE IF "download" \in CurrentAnchor.class /\ CurrentAnchor.download
               THEN /\ pc' = "resolve_link"
                    /\ absolute_link' = urljoin(response.url, CurrentAnchor.href)
               ELSE /\ pc' = "scan" /\ idx' = idx + 1
                    /\ links' = Accepted(response.url, idx)]_vars
    /\ [](Extracting
            => /\ links = Accepted(response.url, IF pc = "scan" THEN idx - 1 ELSE idx)
               /\ ~response.closed)

\* the direct-download link of the page failed (nothing else was fetched but
\* the page and the link), and the candidate links before and after it are
\* in front of the queue
C14_Witness ==
    /\ pc = "loop" /\ event = "extracted"
    /\ response.url = P
    /\ Cardinality(fetched) = 2 /\ ~refetched
    /\ pdf_response.status = "http_error"
    /\ Len(links) >= 2 /\ links[1] = A /\ links[2] = V
    /\ Len(queue) > Len(links)
    /\ SubSeq(queue, 1, Len(links)) = links

\* C15: every pop removes the head of the queue and makes it the current
\* URL, visited or not; when that URL is visited the iteration ends there:
\* nothing is resolved (no HEAD probe), nothing is fetched, no rewrite is
\* tried, no file is saved, and the visited set and the rest of the queue are
\* as they were; only a URL that is not visited gets to the rewrite attempt
\* or to the generic path.
C15_SkipOnPop ==
    /\ [][pc = "loop" /\ queue # <<>>
            => current_url' = Head(queue) /\ queue' = Tail(queue)]_vars
    /\ [][pc = "loop" /\ queue # <<>> /\ Head(queue) \in visited_urls
            => /\ pc' = "loop" /\ event' = "skipped"
               /\ head_ok' = "none"
               /\ resolved_url' = NoUrl /\ resolved_download_url' = NoUrl
               /\ fetched' = fetched /\ refetched' = refetched
               /\ files' = files /\ saved' = "none"
               /\ visited_urls' = visited_urls]_vars
    /\ [](pc \in {"try_download", "get_download", "resolve", "fetch"}
            => current_url # NoUrl /\ current_url \notin visited_urls)

\* a URL that was queued twice is popped the second time, visited, and
\* dropped, with URLs left in the queue
C15_Witness ==
    /\ pc = "loop" /\ event = "skipped"
    /\ current_url # NoUrl
    /\ current_url \in visited_urls
    /\ current_url \in fetched
    /\ queue # <<>>

\* the URL without its query string and its fragment
WithoutQuery(url) == Before(url, {"?", "#"})

\* C16: whether a popped URL gets the direct-download attempt depends on its
\* path only, not on its query string or fragment: it gets the attempt
\* exactly when the same URL without query string and fragment would.
C16_PathOnlyMatch ==
    pc \in {"try_download", "get_download", "resolve"}
        => (pc # "resolve") = article_view_match(WithoutQuery(current_url))

\* C17: an interrupt stops the crawl only between two iterations of the main
\* loop, never inside one, and the step on which it stops the crawl writes
\* nothing, so that it leaves no file partially written.
C17_InterruptPoint ==
    [][pc' = "interrupted" /\ pc # "interrupted"
         => /\ pc = "loop"
            /\ files' = files]_vars

\* C18: when the crawl starts from pairwise distinct URLs, the queue never
\* holds a URL twice.
C18_QueueDistinct == Distinct(queue)

\* an anchor of the candidate-document kind: class token pdf or a href that
\* ends in .pdf, and not a direct-download anchor
CandidateAnchor(a) ==
    /\ "pdf" \in a.class \/ ends_with_pdf(a.href)
    /\ ~("download" \in a.class /\ a.download)

\* the candidate-document links of the page at url
CandidateLinks(url) ==
    {urljoin(url, PageAnchors(url)[n].href) :
        n \in {k \in 1..Len(PageAnchors(url)) : CandidateAnchor(PageAnchors(url)[k])}}

\* C19: the queue changes only by a pop of its head or by the prepend of the
\* links of a page at the end of its extraction; those links are candidate
\* links of anchors of a page that was fetched with success and an HTML media
\* type; nothing is queued while a derived download URL or a direct-download
\* link is handled.  So every queued URL is a start URL or a candidate link of
\* a page: a derived download URL or a direct-download link is never queued
\* as such.
C19_QueueProvenance ==
    /\ [][queue' # queue
            => \/ pc = "loop" /\ queue' = Tail(queue) /\ current_url' = Head(queue)
               \/ /\ pc = "scan" /\ pc' = "loop" /\ event' = "extracted"
                  /\ links # <<>>
                  /\ queue' = links \o queue]_vars
    /\ [](Extracting
            => /\ Succeeded(response)
               /\ response.content_type \in HtmlTypes
               /\ \A i \in 1..Len(links) : links[i] \in CandidateLinks(response.url))
    /\ [][(pc \in {"try_download", "get_download", "resolve_link", "get_link"})
            => queue' = queue /\ links' = links]_vars
    /\ [](\A k \in 1..Len(queue) :
            queue[k] \in StartUrls \cup UNION {CandidateLinks(u) : u \in Urls})

\* the page of a view URL was extracted after its derived download URL and
\* its direct-download link were fetched: only its candidate link is queued
C19_Witness ==
    /\ pc = "loop" /\ event = "extracted"
    /\ response.url = V
    /\ queue = <<A>>
    /\ resolved_download_url \in fetched
    /\ resolved_download_url # V
    /\ Cardinality(fetched) >= 3
====
